---------------------------- MODULE Spec2Model ----------------------------
(***************************************************************************)
(* Staged training controller of the progressive GAN trainer               *)
(* (src/trainer.py, class Trainer).                                        *)
(*                                                                         *)
(* Modelled: update_trainer (stage / fade-in controller and optimizer      *)
(* rebinding), update_network (the two optimizer steps) and the loop       *)
(* structure of train().                                                   *)
(*                                                                         *)
(* Conventions                                                             *)
(*  - alpha and delta are floats in the source; the model computes them    *)
(*    as exact rationals <<n, d>> in lowest terms, so "equal" below means  *)
(*    equal up to the rounding of float addition.                          *)
(*  - Generator / Discriminator live in networks.py, which is not part of  *)
(*    src/; grow_network, flush_network, update_alpha and get_alpha are    *)
(*    modelled from section 4.1 of the specification.                      *)
(*  - __init__ stores the device as self.devie (line 36) while             *)
(*    init_trainer reads self.device (line 47).  cfg.has_device says       *)
(*    whether the name device resolves on the object: when it does not     *)
(*    (the class as written), line 47 raises AttributeError, no Trainer    *)
(*    exists (pc = "failed") and nothing can be called; when it does, the  *)
(*    reads of self.device at lines 108-109 succeed too.                   *)
(*  - The worker processes of the DataLoader go through their start-up    *)
(*    concurrently with the main thread.  loader.workers holds the workers *)
(*    whose start-up is followed: all of them where the loader is driven   *)
(*    directly (SpecWorkers), in train() those that hand over a batch,     *)
(*    which are the ones the main thread waits for at line 221.            *)
(*  - The keys of an optimizer's state_dict() are those of the installed   *)
(*    torch: the parameter's identity up to release 1.5, its position in   *)
(*    the parameter list from 1.6 on.  cfg.keys says which.                *)
(*  - train() reads self.initial_size (line 216), which __init__ never     *)
(*    binds (it binds init_size, line 29).  cfg.has_initial_size says      *)
(*    whether the name resolves on the object; when it does not, line 216  *)
(*    raises AttributeError.                                               *)
(*  - Parameter values are tracked where update_moving_average is driven   *)
(*    directly (SpecEMA).  In train() weights has no entry: there the      *)
(*    model tracks the calls of update_moving_average and which generator  *)
(*    step each operation of a batch follows, not the values.              *)
(***************************************************************************)
EXTENDS Integers, Sequences, FiniteSets, TLC

VARIABLES
    cfg,          \* configuration: size, unit_epoch, num_aug, nb = len(dataloader),
                  \* and what the environment resolves (device, initial_size, keys)
    tickers,      \* self.tickers (line 69)
    G, D, G_EMA,  \* the three progressive networks
    opt_G, opt_D, \* the two Adam optimizers
    call,         \* the last update_trainer call: arguments, operations, result
    prev,         \* the update_trainer call before it
    ncalls,       \* number of update_trainer calls made so far
    pc,           \* position of train()
    stage, M, epoch, aug, i, ticker,   \* locals of train()
    global_step, global_epoch,         \* locals of train()
    has_real_data,                     \* whether the local real_data is bound
    saved,        \* checkpoint files written: sequence of records
    error,        \* the exception that ended train(), "" when none
    log,          \* train(): the operations of the current batch, in order
    count,        \* train(): grow_network / flush_network calls completed on G
    weights,      \* parameter values by name, of G and of G_EMA
    ema_call,     \* the last update_moving_average call
    loader        \* the DataLoader: worker_init_fn and its worker processes

vars == <<cfg, tickers, G, D, G_EMA, opt_G, opt_D, call, prev, ncalls, pc,
          stage, M, epoch, aug, i, ticker, global_step, global_epoch,
          has_real_data, saved, error, log, count, weights, ema_call, loader>>

netVars   == <<G, D, G_EMA, opt_G, opt_D>>
trainVars == <<pc, stage, M, epoch, aug, i, ticker, global_step, global_epoch,
               has_real_data, saved, error, log, count>>
sideVars  == <<weights, ema_call, loader>>

----------------------------------------------------------------------------
(* Bounds of the model *)

MaxLog == 4
MaxUnitEpoch == 2
MaxAug == 1
MaxBatches == 2
MaxTickersCalls == 2
MaxLogCalls == 1
MaxCalls == 3
MaxSteps == 1
MaxNames == 2
MaxEmaCalls == 2
MaxSeedHi == 2
MaxBaseSeed == 1
MaxIterations == 2

\* Line 67: num_workers
NumWorkers == 8

----------------------------------------------------------------------------
(* Rationals <<n, d>>, d > 0, in lowest terms *)

RECURSIVE Gcd(_, _)
Gcd(a, b) == IF b = 0 THEN a ELSE Gcd(b, a % b)

Abs(x) == IF x < 0 THEN -x ELSE x

Rat(n, d) == LET g == Gcd(Abs(n), d) IN <<n \div g, d \div g>>

Lcm(a, b) == (a \div Gcd(a, b)) * b

RAdd(a, b) ==
    LET l == Lcm(a[2], b[2])
    IN Rat(a[1] * (l \div a[2]) + b[1] * (l \div b[2]), l)

RSub(a, b) ==
    LET l == Lcm(a[2], b[2])
    IN Rat(a[1] * (l \div a[2]) - b[1] * (l \div b[2]), l)

RMul(a, b) ==
    LET g1 == Gcd(Abs(a[1]), b[2])
        g2 == Gcd(Abs(b[1]), a[2])
    IN Rat((a[1] \div g1) * (b[1] \div g2), (a[2] \div g2) * (b[2] \div g1))

RLeq(a, b) == a[1] * b[2] <= b[1] * a[2]

RMin(a, b) == IF RLeq(a, b) THEN a ELSE b

Zero == Rat(0, 1)
One == Rat(1, 1)
Half == Rat(1, 2)

\* Line 136: decay=0.999
DefaultDecay == Rat(999, 1000)

----------------------------------------------------------------------------
(* Stage count *)

\* int(math.log2(size / 4)) for size >= 4
RECURSIVE Log2Quarter(_)
Log2Quarter(size) == IF size < 8 THEN 0 ELSE 1 + Log2Quarter(size \div 2)

\* Line 80: the resolution of the first stage
BaseSize == 4

\* Line 207 without the + 1
TotalStagesShort(size) == Log2Quarter(size)

\* Lines 80 and 207
TotalStages(size) == Log2Quarter(size) + 1

----------------------------------------------------------------------------
(* Progressive network (section 4.1 of the specification)                  *)
(*   current_stage : resolution blocks present                             *)
(*   fadein        : <<>> when there is no fade-in layer, else alpha       *)
(*   params        : identities of the trainable parameters, in order      *)
(*   old_path      : parameters of the output path a flush discards        *)
(*   next          : next fresh parameter identity                         *)

NoFadein == <<>>

NewNetwork == [current_stage |-> 1, fadein |-> NoFadein, params |-> <<1, 2>>,
               old_path |-> {}, next |-> 3]

HasFadein(net) == net.fadein # NoFadein

Mode(net) == IF HasFadein(net) THEN "GROWING"
             ELSE IF net.current_stage = 1 THEN "BASE" ELSE "STABLE"

Res(ok, net) == [ok |-> ok, net |-> net]

grow_network(net, size) ==
    IF net.current_stage >= TotalStages(size)
    THEN Res(FALSE, net)
    ELSE Res(TRUE, [current_stage |-> net.current_stage + 1,
                    fadein |-> Zero,
                    params |-> net.params \o <<net.next, net.next + 1>>,
                    old_path |-> net.old_path \cup {net.params[Len(net.params)]},
                    next |-> net.next + 2])

update_alpha(net, delta) ==
    IF ~HasFadein(net)
    THEN Res(FALSE, net)
    ELSE Res(TRUE, [net EXCEPT !.fadein = RMin(RAdd(net.fadein, delta), One)])

flush_network(net) ==
    Res(TRUE, [net EXCEPT !.fadein = NoFadein,
                          !.params = SelectSeq(net.params,
                                         LAMBDA p : p \notin net.old_path),
                          !.old_path = {}])

----------------------------------------------------------------------------
(* Adam optimizer: obj numbers the successive optimizer objects bound to    *)
(* the attribute, params is the bound parameter list, state maps a          *)
(* parameter to its accumulators (here the step count Adam keeps).          *)

Range(s) == {s[k] : k \in DOMAIN s}

IndexOf(s, x) == CHOOSE k \in DOMAIN s : s[k] = x

Adam(params, obj) == [obj |-> obj, params |-> params, state |-> <<>>]

KeyKinds == {"identity", "position"}

\* The key under which state_dict() files a parameter, by position
KeyByIndex(opt, p) == IndexOf(opt.params, p) - 1

\* The key under which state_dict() files a parameter: its identity or its
\* position in the parameter list, as the installed torch has it
Key(opt, p) == IF cfg.keys = "position" THEN KeyByIndex(opt, p) ELSE p

StateDict(opt) ==
    [state |-> [k \in {Key(opt, p) : p \in DOMAIN opt.state} |->
                   opt.state[CHOOSE p \in DOMAIN opt.state : Key(opt, p) = k]],
     param_ids |-> [k \in DOMAIN opt.params |-> Key(opt, opt.params[k])]]

\* load_state_dict: saved keys are matched to the optimizer's parameters by
\* position; an entry whose key is not among the saved keys is kept as is
LoadStateDict(opt, sd) ==
    LET saved_ids == Range(sd.param_ids)
        Target(k) == IF k \in saved_ids
                     THEN opt.params[IndexOf(sd.param_ids, k)] ELSE k
    IN [opt EXCEPT !.state =
           [p \in {Target(k) : k \in DOMAIN sd.state} |->
               sd.state[CHOOSE k \in DOMAIN sd.state : Target(k) = p]]]

\* Adam.step(): every bound parameter gets (or advances) its accumulators
OptStep(opt) ==
    [opt EXCEPT !.state =
        [p \in Range(opt.params) |->
            IF p \in DOMAIN opt.state THEN opt.state[p] + 1 ELSE 1]]

\* Lines 112-122 (opt_G) and 124-134 (opt_D)
Rebind(opt, net) ==
    LET old_sd == StateDict(opt)
        old_state == old_sd.state
        new_opt == Adam(net.params, opt.obj + 1)
        new_param_id == StateDict(new_opt).param_ids
        kept == {k \in DOMAIN old_state : k \in Range(new_param_id)}
        opt_state == [k \in kept |-> old_state[k]]
    IN LoadStateDict(new_opt, [state |-> opt_state, param_ids |-> new_param_id])

----------------------------------------------------------------------------
(* update_trainer (lines 70-135) *)

CallRec(st, tk, raised, ret, ops, rebuilt) ==
    [stage |-> st, tick |-> tk, raised |-> raised, ret |-> ret, ops |-> ops,
     rebuilt |-> rebuilt]

NoCall == CallRec(0, 0, "", <<>>, <<>>, {})

Outcome(g, d, e, og, od, c) ==
    [G |-> g, D |-> d, G_EMA |-> e, opt_G |-> og, opt_D |-> od, call |-> c]

\* Line 77 with the test dropped
IsBaseStageNever(st) == FALSE

\* Line 77
IsBaseStage(st) == st = 1

\* Line 81 with the bound off by one
StageValidLoose(st) == st <= TotalStages(cfg.size) + 1

\* Lines 80-81
StageValid(st) == st <= TotalStages(cfg.size)

\* Line 83 with the budget off by one
DeltaLong == Rat(1, tickers + 1)

\* Line 83 (evaluated only when tickers # 0)
Delta == Rat(1, tickers)

\* Lines 84-100 with the fade-in test written inclusively
BranchInclusive(tk) ==
    IF tk = 0 THEN "grow_network"
    ELSE IF tk > 0 /\ tk <= tickers THEN "update_alpha"
    ELSE IF tk = tickers THEN "flush_network"
    ELSE "none"

\* Lines 84-100 with the flush at every tick from tickers on
BranchFlushLate(tk) ==
    IF tk = 0 THEN "grow_network"
    ELSE IF tk > 0 /\ tk < tickers THEN "update_alpha"
    ELSE IF tk >= tickers THEN "flush_network"
    ELSE "none"

\* Lines 84-100 without the flush
BranchNoFlush(tk) ==
    IF tk = 0 THEN "grow_network"
    ELSE IF tk > 0 /\ tk < tickers THEN "update_alpha"
    ELSE "none"

\* Lines 84-100: the branch taken for a tick
Branch(tk) ==
    IF tk = 0 THEN "grow_network"
    ELSE IF tk > 0 /\ tk < tickers THEN "update_alpha"
    ELSE IF tk = tickers THEN "flush_network"
    ELSE "none"

\* Lines 88, 93, 98, 100 with the flag also set while fading in
FlagOptAlways(kind) == kind # "none"

\* Lines 88, 93, 98, 100: flag_opt per branch
FlagOpt(kind) == kind \in {"grow_network", "flush_network"}

\* Lines 102-105 with the fallback value 0
GetAlphaZero(net) == IF HasFadein(net) THEN net.fadein ELSE Zero

\* Lines 102-105: get_alpha of the generator, 1 when it raises
GetAlpha(net) == IF HasFadein(net) THEN net.fadein ELSE One

ErrorOf(kind) == IF kind = "grow_network" THEN "AssertionError" ELSE "AttributeError"

Apply(kind, net) ==
    CASE kind = "grow_network" -> grow_network(net, cfg.size)
      [] kind = "update_alpha" -> update_alpha(net, Delta)
      [] kind = "flush_network" -> flush_network(net)
      [] OTHER -> Res(TRUE, net)

\* Lines 85-87, 90-92, 95-97 without the call on the EMA shadow
TopologyNoEMA(kind, g, d, e) ==
    LET rg == Apply(kind, g)
        rd == Apply(kind, d)
    IN IF kind = "none" THEN [ok |-> TRUE, G |-> g, D |-> d, G_EMA |-> e, ops |-> <<>>]
       ELSE IF ~rg.ok THEN [ok |-> FALSE, G |-> g, D |-> d, G_EMA |-> e, ops |-> <<>>]
       ELSE IF ~rd.ok THEN [ok |-> FALSE, G |-> rg.net, D |-> d, G_EMA |-> e,
                            ops |-> << <<kind, "G">> >>]
       ELSE [ok |-> TRUE, G |-> rg.net, D |-> rd.net, G_EMA |-> e,
             ops |-> << <<kind, "G">>, <<kind, "D">> >>]

\* Lines 85-87, 90-92, 95-97: the operation on G, then D, then G_EMA; an
\* exception leaves the later networks untouched
Topology(kind, g, d, e) ==
    LET rg == Apply(kind, g)
        rd == Apply(kind, d)
        re == Apply(kind, e)
    IN IF kind = "none" THEN [ok |-> TRUE, G |-> g, D |-> d, G_EMA |-> e, ops |-> <<>>]
       ELSE IF ~rg.ok THEN [ok |-> FALSE, G |-> g, D |-> d, G_EMA |-> e, ops |-> <<>>]
       ELSE IF ~rd.ok THEN [ok |-> FALSE, G |-> rg.net, D |-> d, G_EMA |-> e,
                            ops |-> << <<kind, "G">> >>]
       ELSE IF ~re.ok THEN [ok |-> FALSE, G |-> rg.net, D |-> rd.net, G_EMA |-> e,
                            ops |-> << <<kind, "G">>, <<kind, "D">> >>]
       ELSE [ok |-> TRUE, G |-> rg.net, D |-> rd.net, G_EMA |-> re.net,
             ops |-> << <<kind, "G">>, <<kind, "D">>, <<kind, "G_EMA">> >>]

\* Lines 77-135: the state and the result after update_trainer(st, tk)
UpdateTrainerResult(st, tk) ==
    IF IsBaseStage(st)
    THEN Outcome(G, D, G_EMA, opt_G, opt_D, CallRec(st, tk, "", Zero, <<>>, {}))
    ELSE IF ~StageValid(st)
    THEN Outcome(G, D, G_EMA, opt_G, opt_D,
                 CallRec(st, tk, "AssertionError", <<>>, <<>>, {}))
    ELSE IF tickers = 0
    THEN Outcome(G, D, G_EMA, opt_G, opt_D,
                 CallRec(st, tk, "ZeroDivisionError", <<>>, <<>>, {}))
    ELSE LET kind == Branch(tk)
             t == Topology(kind, G, D, G_EMA)
         IN IF ~t.ok
            THEN Outcome(t.G, t.D, t.G_EMA, opt_G, opt_D,
                         CallRec(st, tk, ErrorOf(kind), <<>>, t.ops, {}))
            ELSE LET current_alpha == GetAlpha(t.G)
                 IN IF FlagOpt(kind)
                    THEN Outcome(t.G, t.D, t.G_EMA, Rebind(opt_G, t.G), Rebind(opt_D, t.D),
                                 CallRec(st, tk, "", current_alpha, t.ops,
                                         {"opt_G", "opt_D"}))
                    ELSE Outcome(t.G, t.D, t.G_EMA, opt_G, opt_D,
                                 CallRec(st, tk, "", current_alpha, t.ops, {}))

\* The effect of one update_trainer call on the trainer
DoUpdateTrainer(st, tk) ==
    \E out \in {UpdateTrainerResult(st, tk)} :
       /\ G' = out.G
       /\ D' = out.D
       /\ G_EMA' = out.G_EMA
       /\ opt_G' = out.opt_G
       /\ opt_D' = out.opt_D
       /\ call' = out.call
       /\ prev' = call
       /\ ncalls' = ncalls + 1

----------------------------------------------------------------------------
(* update_moving_average (lines 136-147)                                    *)
(* weights.G and weights.G_EMA map a parameter name to its value; names are *)
(* numbered in registration order, the order named_parameters() yields.     *)

Names == 1..MaxNames
Values == {Zero, One}
Decays == {Zero, Half, DefaultDecay, One}

Weights(g, e) == [G |-> g, G_EMA |-> e]

\* Parameter values are not tracked
NoWeights == Weights(<<>>, <<>>)

\* Every assignment of values to a subset of the names
Assignments == UNION {[names -> Values] : names \in SUBSET Names}

\* Line 147 with the two weights exchanged
BlendSwapped(decay, param_EMA, param_G) ==
    RAdd(RMul(RSub(One, decay), param_EMA), RMul(decay, param_G))

\* Line 147: decay * param_EMA + (1. - decay) * param_G
Blend(decay, param_EMA, param_G) ==
    RAdd(RMul(decay, param_EMA), RMul(RSub(One, decay), param_G))

\* Lines 144-147: the loop over the names of G_EMA from name k on; line 145
\* raises KeyError at the first name G lacks, after the earlier names were
\* updated; a name only G has is never looked at.  G_EMA is a deep copy of G
\* (line 45), so the two never share a parameter object and the assert of
\* line 146 passes.
RECURSIVE EmaLoop(_, _, _, _)
EmaLoop(k, decay, g, e) ==
    IF k > MaxNames THEN [raised |-> "", G_EMA |-> e]
    ELSE IF k \notin DOMAIN e THEN EmaLoop(k + 1, decay, g, e)
    ELSE IF k \notin DOMAIN g THEN [raised |-> "KeyError", G_EMA |-> e]
    ELSE EmaLoop(k + 1, decay, g, [e EXCEPT ![k] = Blend(decay, e[k], g[k])])

\* Lines 142-147
update_moving_average(decay, w) ==
    LET r == EmaLoop(1, decay, w.G, w.G_EMA)
    IN [raised |-> r.raised, weights |-> Weights(w.G, r.G_EMA)]

\* n: calls so far; decay, raised: of the last call; stepped: a generator
\* step happened since the last call; repeat: the last call followed a
\* normal call with the same decay and no generator step between them
EmaCall(n, decay, raised, stepped, repeat) ==
    [n |-> n, decay |-> decay, raised |-> raised, stepped |-> stepped,
     repeat |-> repeat]

NoEmaCall == EmaCall(0, Zero, "", FALSE, FALSE)

\* The record of a call with this decay and outcome, made after call c
EmaCallAfter(c, decay, raised) ==
    EmaCall(c.n + 1, decay, raised, FALSE,
            c.n > 0 /\ c.raised = "" /\ c.decay = decay /\ ~c.stepped)

DoUpdateMovingAverage(decay) ==
    LET r == update_moving_average(decay, weights)
    IN /\ weights' = r.weights
       /\ ema_call' = EmaCallAfter(ema_call, decay, r.raised)

\* Lines 177 and 190 of update_network: opt_D.step(), then opt_G.step(),
\* which gives the generator's parameters new values; a generator step has
\* now happened since the last update_moving_average call
DoUpdateNetwork ==
    /\ opt_D' = OptStep(opt_D)
    /\ opt_G' = OptStep(opt_G)
    /\ \E g \in [DOMAIN weights.G -> Values] :
          weights' = [weights EXCEPT !.G = g]
    /\ ema_call' = [ema_call EXCEPT !.stepped = TRUE]

----------------------------------------------------------------------------
(* The DataLoader of lines 66-67 and its worker processes.                  *)
(* A seed is <<hi, lo>>, standing for hi * 2^32 + lo.                        *)

\* Lines 18-22, called with no argument: the seeds it sets in the calling
\* process, and its return value
\*   np_seed = torch_seed // 2**32-1 is (torch_seed // 2**32) - 1
WorkerInitFn(torch_seed) ==
    [random_seed |-> torch_seed, np_seed |-> torch_seed[1] - 1, ret |-> "None"]

NoWorker == [started |-> FALSE, ran_init_fn |-> FALSE, torch_seed |-> 0,
             random_seed |-> 0, np_seed |-> 0]

WorkerIds == 0..(NumWorkers - 1)

\* The worker that hands over batch k of an iteration (torch.utils.data):
\* the batches are dealt to the workers in turn and handed over in order
WorkerOf(k) == k % NumWorkers

\* The workers that hand over a batch in an iteration of nb batches
Feeding(nb) == {WorkerOf(k) : k \in 0..(nb - 1)}

\* Lines 66-67: the argument worker_init_fn=_worker_init_fn_() is evaluated
\* in the constructing process, and its value is what the loader keeps.
\* loader.workers has an entry for every worker in ids, the workers whose
\* start-up is followed.
BuildLoader(torch_seed, ids) ==
    LET r == WorkerInitFn(torch_seed)
    IN [worker_init_fn |-> r.ret,
        main |-> [random_seed |-> r.random_seed, np_seed |-> r.np_seed],
        iterating |-> FALSE, iterations |-> 0, base_seed |-> 0,
        workers |-> [w \in ids |-> NoWorker]]

\* No DataLoader: line 66 was not reached
NoLoader ==
    [worker_init_fn |-> "unbound",
     main |-> [random_seed |-> <<0, 0>>, np_seed |-> 0],
     iterating |-> FALSE, iterations |-> 0, base_seed |-> 0,
     workers |-> <<>>]

\* Line 221: enumerate(self.dataloader) creates an iterator, which draws the
\* base seed of its workers and creates their processes; none has gone
\* through its start-up yet
NewIteration(ld, base_seed) ==
    [ld EXCEPT !.iterating = TRUE,
               !.iterations = ld.iterations + 1,
               !.base_seed = base_seed,
               !.workers = [w \in DOMAIN ld.workers |-> NoWorker]]

\* Line 221: the loop over the iterator ends, the iterator is dropped and its
\* workers shut down
EndIteration(ld) ==
    [ld EXCEPT !.iterating = FALSE,
               !.base_seed = 0,
               !.workers = [w \in DOMAIN ld.workers |-> NoWorker]]

\* Start-up of worker w (torch.utils.data): torch and random are seeded with
\* base_seed + w, numpy keeps the state inherited from the parent process,
\* and worker_init_fn runs when it is not None
StartWorker(ld, w) ==
    [started |-> TRUE,
     ran_init_fn |-> ld.worker_init_fn # "None",
     torch_seed |-> ld.base_seed + w,
     random_seed |-> ld.base_seed + w,
     np_seed |-> ld.main.np_seed]

----------------------------------------------------------------------------
(* Configurations and the state after construction (lines 25-69) *)

Pow2(e) == 2 ^ e

Sizes(maxlog) == {4 * Pow2(e) : e \in 0..maxlog} \cup {6 * Pow2(e) : e \in 0..maxlog}

Config(size, unit_epoch, num_aug, nb, has_device, has_initial_size, keys) ==
    [size |-> size, unit_epoch |-> unit_epoch, num_aug |-> num_aug, nb |-> nb,
     has_device |-> has_device, has_initial_size |-> has_initial_size,
     keys |-> keys]

\* Line 69 with one batch fewer
TickersShort(c) == c.unit_epoch * c.num_aug * (c.nb - 1)

\* Line 69
Tickers(c) == c.unit_epoch * c.num_aug * c.nb

\* Lines 43-54 and 69
Constructed(c) ==
    /\ cfg = c
    /\ tickers = Tickers(c)
    /\ G = NewNetwork
    /\ D = NewNetwork
    /\ G_EMA = NewNetwork
    /\ opt_G = Adam(NewNetwork.params, 0)
    /\ opt_D = Adam(NewNetwork.params, 0)
    /\ call = NoCall
    /\ prev = NoCall
    /\ ncalls = 0

\* The operations of a batch as train() performs them, each with the number
\* of generator steps taken before it ended
LogEntry(op, g) == [op |-> op, g |-> g]

\* Generator steps taken so far: the step count Adam keeps for the first
\* parameter, which every rebinding retains
GVersion(opt) == IF 1 \in DOMAIN opt.state THEN opt.state[1] ELSE 0

NetNames == {"G", "D", "G_EMA"}

NoCount == [net \in NetNames |-> [grow |-> 0, flush |-> 0]]

Did(c, kind, net) == IF <<kind, net>> \in Range(c.ops) THEN 1 ELSE 0

\* Lines 85-87 and 95-97: the grow and flush calls a controller call made
CountAfter(cnt, c) ==
    [net \in NetNames |->
        [grow |-> cnt[net].grow + Did(c, "grow_network", net),
         flush |-> cnt[net].flush + Did(c, "flush_network", net)]]

\* train() has not run: position p, and e the exception raised so far
Locals(p, e) ==
    /\ pc = p
    /\ stage = 0
    /\ M = 0
    /\ epoch = 0
    /\ aug = 0
    /\ i = 0
    /\ ticker = 0
    /\ global_step = 0
    /\ global_epoch = 0
    /\ has_real_data = FALSE
    /\ saved = <<>>
    /\ error = e
    /\ log = <<>>
    /\ count = NoCount

Idle == Locals("idle", "")

\* No optimizer: lines 53-54 were not reached
NoOptimizer == Adam(<<>>, 0)

\* Lines 39-47 when self.device does not resolve: the networks of lines
\* 43-45 were built, line 47 raised AttributeError, and __init__ left no
\* Trainer behind
ConstructionFailed(c) ==
    /\ cfg = c
    /\ tickers = 0
    /\ G = NewNetwork
    /\ D = NewNetwork
    /\ G_EMA = NewNetwork
    /\ opt_G = NoOptimizer
    /\ opt_D = NoOptimizer
    /\ call = NoCall
    /\ prev = NoCall
    /\ ncalls = 0
    /\ weights = NoWeights
    /\ ema_call = NoEmaCall
    /\ loader = NoLoader
    /\ Locals("failed", "AttributeError")

\* Trainer(config, device, device_ids) (lines 25-69): the trainer at position
\* p with parameter values w and DataLoader ld, or the failed construction
NewTrainer(c, p, w, ld) ==
    IF c.has_device
    THEN /\ Constructed(c)
         /\ Locals(p, "")
         /\ weights = w
         /\ ema_call = NoEmaCall
         /\ loader = ld
    ELSE ConstructionFailed(c)

\* The default generator seed of torch, 67280421310721 = 15664 * 2^32 + ...,
\* stands as <<1, 0>> where the seeds of the loader are not examined.  With
\* train() the start-up of the workers that feed it is followed: the others
\* start the same way and never meet the main thread.
DefaultLoader(c) == BuildLoader(<<1, 0>>, Feeding(c.nb))

----------------------------------------------------------------------------
(* A caller driving update_trainer and update_network directly, with any   *)
(* stage and tick                                                          *)

InitCalls ==
    \E size \in Sizes(MaxLogCalls), nb \in 0..MaxTickersCalls,
       hd \in BOOLEAN, keys \in KeyKinds :
       LET c == Config(size, 1, 1, nb, hd, TRUE, keys)
       IN NewTrainer(c, "idle", NoWeights, DefaultLoader(c))

CallStages == 1..(TotalStages(cfg.size) + 1)
CallTicks == (-1)..(tickers + 1)

CallUpdateTrainer ==
    /\ pc = "idle"
    /\ ncalls < MaxCalls
    /\ \E st \in CallStages, tk \in CallTicks : DoUpdateTrainer(st, tk)
    /\ UNCHANGED <<sideVars, cfg, tickers, trainVars>>

CallUpdateNetwork ==
    /\ pc = "idle"
    /\ ncalls < MaxCalls
    /\ \A p \in DOMAIN opt_G.state : opt_G.state[p] < MaxSteps
    /\ DoUpdateNetwork
    /\ UNCHANGED <<loader, cfg, tickers, G, D, G_EMA, call, prev, ncalls, trainVars>>

NextCalls == CallUpdateTrainer \/ CallUpdateNetwork

SpecCalls == InitCalls /\ [][NextCalls]_vars

----------------------------------------------------------------------------
(* A caller driving update_moving_average directly, on a generator and a   *)
(* shadow with any parameter names and values, with update_network calls   *)
(* between the calls                                                       *)

InitEMA ==
    \E g \in Assignments, e \in Assignments, hd \in BOOLEAN, keys \in KeyKinds :
       LET c == Config(BaseSize, 1, 1, 1, hd, TRUE, keys)
       IN NewTrainer(c, "idle", Weights(g, e), DefaultLoader(c))

CallUpdateMovingAverage ==
    /\ pc = "idle"
    /\ ema_call.n < MaxEmaCalls
    /\ \E decay \in Decays : DoUpdateMovingAverage(decay)
    /\ UNCHANGED <<loader, cfg, tickers, netVars, call, prev, ncalls, trainVars>>

NextEMA == CallUpdateMovingAverage \/ CallUpdateNetwork

SpecEMA == InitEMA /\ [][NextEMA]_vars

----------------------------------------------------------------------------
(* The worker processes of the DataLoader: every iteration over the loader *)
(* (line 221) starts NumWorkers workers, which go through their start-up   *)
(* in their own processes, in any order                                    *)

InitWorkers ==
    \E hi \in 1..MaxSeedHi, hd \in BOOLEAN, keys \in KeyKinds :
       NewTrainer(Config(BaseSize, 1, 1, 1, hd, TRUE, keys), "idle", NoWeights,
                  BuildLoader(<<hi, 0>>, WorkerIds))

\* Line 221: enumerate(self.dataloader) creates the iterator
LoaderIterate ==
    /\ pc = "idle"
    /\ ~loader.iterating
    /\ loader.iterations < MaxIterations
    /\ \E base_seed \in 0..MaxBaseSeed :
          loader' = NewIteration(loader, base_seed)
    /\ UNCHANGED <<weights, ema_call, cfg, tickers, netVars, call, prev, ncalls,
                   trainVars>>

\* A worker process of the running iteration goes through its start-up;
\* an uncaught exception in the main thread ends the program
WorkerStart ==
    /\ loader.iterating
    /\ pc # "raised"
    /\ \E w \in DOMAIN loader.workers :
          /\ ~loader.workers[w].started
          /\ loader' = [loader EXCEPT !.workers[w] = StartWorker(loader, w)]
    /\ UNCHANGED <<weights, ema_call, cfg, tickers, netVars, call, prev, ncalls,
                   trainVars>>

\* The batch loop ends and the iterator is dropped
LoaderExhausted ==
    /\ loader.iterating
    /\ \A w \in DOMAIN loader.workers : loader.workers[w].started
    /\ loader' = EndIteration(loader)
    /\ UNCHANGED <<weights, ema_call, cfg, tickers, netVars, call, prev, ncalls,
                   trainVars>>

NextWorkers == LoaderIterate \/ WorkerStart \/ LoaderExhausted

SpecWorkers == InitWorkers /\ [][NextWorkers]_vars

----------------------------------------------------------------------------
(* train() (lines 203-263) *)

\* Line 206
DispCircle == IF cfg.unit_epoch > 10 THEN 10 ELSE 1

\* Lines 210-215 with the threshold of line 212 written as stage < 4
StageEpochsEarly(st) ==
    IF st = 1 THEN cfg.unit_epoch
    ELSE IF st < 4 THEN cfg.unit_epoch * 2
    ELSE cfg.unit_epoch * 3

\* Lines 210-215 with the budget of stage 1 in every stage
StageEpochsFlat(st) == cfg.unit_epoch

\* Lines 210-215: the epoch budget M of a stage
StageEpochs(st) ==
    IF st = 1 THEN cfg.unit_epoch
    ELSE IF st <= 4 THEN cfg.unit_epoch * 2
    ELSE cfg.unit_epoch * 3

Init ==
    \E size \in Sizes(MaxLog), unit_epoch \in 0..MaxUnitEpoch,
       num_aug \in 0..MaxAug, nb \in 0..MaxBatches, hd \in BOOLEAN,
       his \in BOOLEAN, keys \in KeyKinds :
       LET c == Config(size, unit_epoch, num_aug, nb, hd, his, keys)
       IN NewTrainer(c, "start", NoWeights, DefaultLoader(c))

\* Lines 204-209: the locals, and the first value of the stage loop
TrainStart ==
    /\ pc = "start"
    /\ global_step' = 0
    /\ global_epoch' = 0
    /\ stage' = 1
    /\ pc' = "stage"
    /\ UNCHANGED <<sideVars, log, count, cfg, tickers, netVars, call, prev, ncalls, M, epoch, aug, i,
                   ticker, has_real_data, saved, error>>

\* Lines 209-217: one iteration of the stage loop begins, or the loop ends
TrainStage ==
    /\ pc = "stage"
    /\ IF stage > TotalStages(cfg.size)
       THEN /\ pc' = "done"
            /\ UNCHANGED <<M, ticker, epoch, error>>
       ELSE /\ M' = StageEpochs(stage)
            /\ IF cfg.has_initial_size
               THEN /\ ticker' = 0
                    /\ epoch' = 0
                    /\ pc' = "epoch"
                    /\ UNCHANGED error
               ELSE /\ error' = "AttributeError"
                    /\ pc' = "raised"
                    /\ UNCHANGED <<ticker, epoch>>
    /\ UNCHANGED <<sideVars, log, count, cfg, tickers, netVars, call, prev, ncalls, stage, aug, i,
                   global_step, global_epoch, has_real_data, saved>>

\* Lines 218-220: head of the epoch loop
TrainEpoch ==
    /\ pc = "epoch"
    /\ IF epoch < M
       THEN aug' = 0 /\ pc' = "aug"
       ELSE pc' = "save" /\ UNCHANGED aug
    /\ UNCHANGED <<sideVars, log, count, cfg, tickers, netVars, call, prev, ncalls, stage, M, epoch, i,
                   ticker, global_step, global_epoch, has_real_data, saved, error>>

\* Lines 220-221: head of the augmentation loop; in its body
\* enumerate(self.dataloader) creates the iterator of a new iteration
TrainAug ==
    /\ pc = "aug"
    /\ IF aug < cfg.num_aug
       THEN /\ i' = 0
            /\ pc' = "iter"
            /\ \E base_seed \in 0..MaxBaseSeed :
                  loader' = NewIteration(loader, base_seed)
       ELSE /\ pc' = "epoch_end"
            /\ UNCHANGED <<i, loader>>
    /\ UNCHANGED <<weights, ema_call, log, count, cfg, tickers, netVars, call, prev, ncalls, stage, M, epoch, aug,
                   ticker, global_step, global_epoch, has_real_data, saved, error>>

\* Line 221: head of the batch loop, the iterator is asked for batch i.
\* The main thread waits until the worker of that batch hands it over,
\* which the worker does after its start-up; when the batches are used up
\* the iteration ends.
TrainIter ==
    /\ pc = "iter"
    /\ IF i < cfg.nb
       THEN /\ loader.workers[WorkerOf(i)].started
            /\ pc' = "batch"
            /\ UNCHANGED <<aug, loader>>
       ELSE /\ aug' = aug + 1
            /\ pc' = "aug"
            /\ loader' = EndIteration(loader)
    /\ UNCHANGED <<weights, ema_call, log, count, cfg, tickers, netVars, call, prev, ncalls, stage, M, epoch, i,
                   ticker, global_step, global_epoch, has_real_data, saved, error>>

\* Line 222: the controller call of the batch
TrainUpdateTrainer ==
    /\ pc = "batch"
    /\ DoUpdateTrainer(stage, ticker)
    /\ log' = <<LogEntry("update_trainer", GVersion(opt_G))>>
    /\ count' = CountAfter(count, call')
    /\ IF call'.raised = ""
       THEN pc' = "network" /\ UNCHANGED error
       ELSE pc' = "raised" /\ error' = call'.raised
    /\ UNCHANGED <<sideVars, cfg, tickers, stage, M, epoch, aug, i, ticker, global_step,
                   global_epoch, has_real_data, saved>>

\* Lines 223-233: the real batch is built and update_network runs
TrainUpdateNetwork ==
    /\ pc = "network"
    /\ has_real_data' = TRUE
    /\ DoUpdateNetwork
    /\ log' = log \o <<LogEntry("opt_D.step", GVersion(opt_G)),
                       LogEntry("opt_G.step", GVersion(opt_G'))>>
    /\ pc' = "ema"
    /\ UNCHANGED <<loader, count, cfg, tickers, G, D, G_EMA, call, prev, ncalls, stage, M, epoch,
                   aug, i, ticker, global_step, global_epoch, saved, error>>

\* Line 234: update_moving_average() with the default decay of line 136, on
\* the generator as it is now; the names of a network are its parameters,
\* and line 145 raises KeyError for a name of G_EMA that G lacks
TrainMovingAverage ==
    /\ pc = "ema"
    /\ IF Range(G_EMA.params) \subseteq Range(G.params)
       THEN /\ log' = Append(log, LogEntry("update_moving_average", GVersion(opt_G)))
            /\ ema_call' = EmaCallAfter(ema_call, DefaultDecay, "")
            /\ pc' = "tick"
            /\ UNCHANGED error
       ELSE /\ error' = "KeyError"
            /\ ema_call' = EmaCallAfter(ema_call, DefaultDecay, "KeyError")
            /\ pc' = "raised"
            /\ UNCHANGED log
    /\ UNCHANGED <<weights, loader, count, cfg, tickers, netVars, call, prev, ncalls,
                   stage, M, epoch, aug, i, ticker, global_step, global_epoch,
                   has_real_data, saved>>

\* Lines 241-242 moved before line 234
TrainTickEarly ==
    /\ pc = "ema"
    /\ global_step' = global_step + 1
    /\ ticker' = ticker + 1
    /\ i' = i + 1
    /\ pc' = "iter"
    /\ UNCHANGED <<sideVars, log, count, cfg, tickers, netVars, call, prev, ncalls,
                   stage, M, epoch, aug, global_epoch, has_real_data, saved, error>>

\* Lines 235-242: logging, then the counters advance
TrainTick ==
    /\ pc = "tick"
    /\ global_step' = global_step + 1
    /\ ticker' = ticker + 1
    /\ i' = i + 1
    /\ pc' = "iter"
    /\ UNCHANGED <<sideVars, log, count, cfg, tickers, netVars, call, prev, ncalls, stage, M, epoch, aug,
                   global_epoch, has_real_data, saved, error>>

\* Lines 243-252: end of an epoch; the image log reads the local real_data
TrainEpochEnd ==
    /\ pc = "epoch_end"
    /\ global_epoch' = global_epoch + 1
    /\ IF epoch % DispCircle = DispCircle - 1 /\ ~has_real_data
       THEN /\ error' = "UnboundLocalError"
            /\ pc' = "raised"
            /\ UNCHANGED epoch
       ELSE /\ epoch' = epoch + 1
            /\ pc' = "epoch"
            /\ UNCHANGED error
    /\ UNCHANGED <<sideVars, log, count, cfg, tickers, netVars, call, prev, ncalls, stage, M, aug, i,
                   ticker, global_step, has_real_data, saved>>

\* Lines 255-262 with one file name for every stage
CheckpointOneFile(st) ==
    [file |-> 1, stage |-> st, G_state_dict |-> G, G_EMA_state_dict |-> G_EMA,
     D_state_dict |-> D, opt_G_state_dict |-> StateDict(opt_G),
     opt_D_state_dict |-> StateDict(opt_D)]

\* Lines 255-262: the checkpoint of a stage
Checkpoint(st) ==
    [file |-> st, stage |-> st, G_state_dict |-> G, G_EMA_state_dict |-> G_EMA,
     D_state_dict |-> D, opt_G_state_dict |-> StateDict(opt_G),
     opt_D_state_dict |-> StateDict(opt_D)]

\* Lines 253-263, then the stage loop advances
TrainSave ==
    /\ pc = "save"
    /\ saved' = Append(saved, Checkpoint(stage))
    /\ stage' = stage + 1
    /\ pc' = "stage"
    /\ UNCHANGED <<sideVars, log, count, cfg, tickers, netVars, call, prev, ncalls, M, epoch, aug, i,
                   ticker, global_step, global_epoch, has_real_data, error>>

Next ==
    \/ TrainStart
    \/ TrainStage
    \/ TrainEpoch
    \/ TrainAug
    \/ TrainIter
    \/ TrainUpdateTrainer
    \/ TrainUpdateNetwork
    \/ TrainMovingAverage
    \/ TrainTick
    \/ TrainEpochEnd
    \/ TrainSave
    \/ WorkerStart

Spec == Init /\ [][Next]_vars

\* The positions of train()
Pcs == {"start", "stage", "epoch", "aug", "iter", "batch", "network", "ema",
        "tick", "epoch_end", "save", "done", "raised", "failed"}

\* train() is one thread: while it has neither returned nor raised, the
\* statement it stands at is executed, which moves it to another position,
\* and a worker it waits for at line 221 does go through its start-up;
\* without a Trainer there is no train() to run
Advance == pc \notin {"done", "raised", "failed"} /\ pc' \in Pcs \ {pc}

FairSpec == Spec /\ WF_pc(Advance)

----------------------------------------------------------------------------
(* Properties                                                              *)
(*                                                                         *)
(* call is the record of the update_trainer call made last and prev the    *)
(* one before; a step with ncalls' = ncalls + 1 is one update_trainer      *)
(* call, whose record is call'.  call.ops lists the topology operations    *)
(* that completed, call.raised names the exception ("" when the call       *)
(* returned).  A call raises exactly when it is outside the controller's   *)
(* preconditions: a stage above the stage count (line 81), tickers = 0     *)
(* (line 83), or a network operation the network refuses.                  *)

IsCall == ncalls' = ncalls + 1

Returned(c) == c.stage > 0 /\ c.raised = ""

Three(kind) == << <<kind, "G">>, <<kind, "D">>, <<kind, "G_EMA">> >>

Kinds(c) == {c.ops[k][1] : k \in DOMAIN c.ops}

\* C1: a call with stage 1 returns alpha 0 for every tick (negative, 0, in
\* range, tickers and above) and changes nothing: no grow_network,
\* update_alpha or flush_network on G, D or G_EMA, and no optimizer rebuilt.
C1_Stage1IsNoOp ==
    [][(IsCall /\ call'.stage = 1) =>
          /\ call'.raised = ""
          /\ call'.ret = Zero
          /\ call'.ops = <<>>
          /\ call'.rebuilt = {}
          /\ UNCHANGED netVars]_vars

\* C1 witness: a stage-1 call with a negative tick made while the networks
\* are fading in (the state a stage-2 branch would have changed).
C1_Witness ==
    /\ call.stage = 1
    /\ call.tick < 0
    /\ call.ret = Zero
    /\ prev.stage = 2
    /\ Mode(G) = "GROWING"

\* C2: in train(), where the ticks of a stage come in order 0, 1, 2, ...,
\* the alpha returned at tick t of a stage > 1 is t / tickers for
\* 0 < t < tickers and exactly 1 at t = tickers.
C2_AlphaIsTickOverTickers ==
    (Returned(call) /\ call.stage > 1) =>
        /\ (0 < call.tick /\ call.tick < tickers) => call.ret = Rat(call.tick, tickers)
        /\ (call.tick = tickers) => call.ret = One

\* C2 witness: stage 3, tickers = 4, tick 3 returned 3/4.
C2_Witness ==
    /\ Returned(call)
    /\ call.stage = 3
    /\ tickers = 4
    /\ call.tick = 3
    /\ call.ret = <<3, 4>>

\* C3: a call with stage > 1 that returns performs exactly one kind of
\* topology operation, chosen by the tick: grow_network at tick 0 (alpha 0
\* returned), update_alpha at 0 < tick < tickers, flush_network at
\* tick = tickers (alpha 1 returned); no call, returning or not, performs
\* operations of two kinds.
C3_OneKindPerCall ==
    /\ Cardinality(Kinds(call)) <= 1
    /\ (Returned(call) /\ call.stage > 1) =>
          /\ (call.tick = 0) =>
                call.ops = Three("grow_network") /\ call.ret = Zero
          /\ (0 < call.tick /\ call.tick < tickers) =>
                call.ops = Three("update_alpha")
          /\ (call.tick = tickers) =>
                call.ops = Three("flush_network") /\ call.ret = One

\* C3 witness: a flush call at tick = tickers right after a fade-in call.
C3_Witness ==
    /\ Returned(call)
    /\ call.stage > 1
    /\ call.tick = tickers
    /\ call.ops = Three("flush_network")
    /\ Returned(prev)
    /\ prev.ops = Three("update_alpha")

\* C4: after any sequence of update_trainer calls the generator, the
\* discriminator and the EMA shadow are in the same controller state: the
\* same number of resolution blocks grown, the same mode and the same alpha,
\* and every call has applied its operation to all three or to none.
C4_NetworksInStep ==
    /\ G.current_stage = D.current_stage
    /\ G.current_stage = G_EMA.current_stage
    /\ Mode(G) = Mode(D)
    /\ Mode(G) = Mode(G_EMA)
    /\ G.fadein = D.fadein
    /\ G.fadein = G_EMA.fadein
    /\ (call.ops = <<>> \/ \E kind \in Kinds(call) : call.ops = Three(kind))

\* C4 witness: all three networks fading in at alpha 1/2.
C4_Witness ==
    /\ Mode(G) = "GROWING"
    /\ G.fadein = <<1, 2>>
    /\ D.fadein = <<1, 2>>
    /\ G_EMA.fadein = <<1, 2>>

\* C5: a call that returns rebuilds the optimizers exactly when stage > 1
\* and the tick is 0 or tickers; opt_G and opt_D are rebuilt together or not
\* at all, and a call that does not rebuild them (stage 1, fade-in tick,
\* tick out of range, or a call that raises) leaves both, reference and
\* state, unchanged.
C5_RebuildExactlyAtGrowAndFlush ==
    [][IsCall =>
          /\ (opt_G'.obj # opt_G.obj) <=> (opt_D'.obj # opt_D.obj)
          /\ (opt_G'.obj # opt_G.obj) <=> (call'.rebuilt = {"opt_G", "opt_D"})
          /\ (opt_G'.obj # opt_G.obj) =>
                (call'.stage > 1 /\ (call'.tick = 0 \/ call'.tick = tickers))
          /\ (Returned(call') /\ call'.stage > 1
                 /\ (call'.tick = 0 \/ call'.tick = tickers)) =>
                (opt_G'.obj # opt_G.obj)
          /\ (opt_G'.obj = opt_G.obj) => (opt_G' = opt_G /\ opt_D' = opt_D)]_vars

\* C5 witness: both optimizers rebuilt twice (grow, then flush), with
\* accumulators present.
C5_Witness ==
    /\ opt_G.obj = 2
    /\ opt_D.obj = 2
    /\ call.tick = tickers
    /\ DOMAIN opt_G.state # {}

\* C6 as stated: within every stage of train() the tick passed to
\* update_trainer stays in [0, tickers].
C6_TickWithinTickers ==
    (call.stage > 0) => (0 <= call.tick /\ call.tick <= tickers)

\* The multiple of unit_epoch that train() runs in a stage
EpochFactor(st) == IF st = 1 THEN 1 ELSE IF st <= 4 THEN 2 ELSE 3

\* C6 amended: within a stage of train() the tick passed to update_trainer
\* stays in [0, K * tickers - 1], with K = 1 in stage 1, 2 in stages 2 to 4
\* and 3 from stage 5 on, tickers being the value computed in init_trainer.
C6_TickWithinEpochBudget ==
    (call.stage > 0) =>
        /\ 0 <= call.tick
        /\ call.tick <= EpochFactor(call.stage) * tickers - 1

\* C6 witness: the last tick of a stage-5 run, 3 * tickers - 1 > tickers.
C6_Witness ==
    /\ call.stage = 5
    /\ tickers >= 2
    /\ call.tick = 3 * tickers - 1

\* C7: a call with a valid stage > 1, tickers >= 1 and a tick below 0 or
\* above tickers does not raise, performs no grow_network, update_alpha or
\* flush_network, rebuilds no optimizer, changes nothing, and returns the
\* alpha the previous call of the same stage returned.
C7_OtherTickIsNoOp ==
    [][(/\ IsCall
        /\ call'.stage > 1
        /\ call'.stage <= TotalStages(cfg.size)
        /\ tickers >= 1
        /\ (call'.tick < 0 \/ call'.tick > tickers)) =>
          /\ call'.raised = ""
          /\ call'.ops = <<>>
          /\ call'.rebuilt = {}
          /\ UNCHANGED netVars
          /\ (Returned(call) /\ call.stage = call'.stage) => call'.ret = call.ret]_vars

\* C7 witness: the tick after the flush returns the 1 the flush returned.
C7_Witness ==
    /\ Returned(call)
    /\ call.stage > 1
    /\ call.tick = tickers + 1
    /\ call.ret = One
    /\ Returned(prev)
    /\ prev.stage = call.stage
    /\ prev.tick = tickers
    /\ prev.ops = Three("flush_network")

\* C8: a call with a stage above total_stages = floor(log2(size / 4)) + 1
\* raises, and nothing has changed when it does: no network grown, faded or
\* flushed and no optimizer rebuilt.
C8_InvalidStageRaisesFirst ==
    [][(IsCall /\ call'.stage > Log2Quarter(cfg.size) + 1) =>
          /\ call'.raised = "AssertionError"
          /\ call'.ops = <<>>
          /\ call'.rebuilt = {}
          /\ UNCHANGED netVars]_vars

\* C8 witness: an invalid-stage call at tick 0 raised while the networks can
\* still grow (clamping or proceeding would have grown them).
C8_Witness ==
    /\ call.stage > Log2Quarter(cfg.size) + 1
    /\ call.raised = "AssertionError"
    /\ call.tick = 0
    /\ G.current_stage < Log2Quarter(cfg.size) + 1

\* C9: over a run of train() the alphas returned within one stage never
\* decrease (the ticks after the flush included), and the first call of the
\* next stage is at tick 0 and returns the post-growth alpha 0.
C9_AlphaMonotoneThenReset ==
    (Returned(call) /\ Returned(prev)) =>
        /\ (call.stage = prev.stage) => RLeq(prev.ret, call.ret)
        /\ (call.stage # prev.stage) =>
              (call.stage = prev.stage + 1 /\ call.tick = 0 /\ call.ret = Zero)

\* C9 witness: stage 2 ended at alpha 1 and stage 3 starts at alpha 0.
C9_Witness ==
    /\ Returned(call)
    /\ Returned(prev)
    /\ prev.stage = 2
    /\ prev.ret = One
    /\ prev.tick > tickers
    /\ call.stage = 3
    /\ call.ret = Zero

RebindKeepsRetained(old, new, net) ==
    /\ new.params = net.params
    /\ DOMAIN new.state = DOMAIN old.state \cap Range(net.params)
    /\ \A p \in DOMAIN new.state : new.state[p] = old.state[p]

\* C10: after a rebind the new optimizer is bound to the network's current
\* parameters and its state holds exactly the old entries of parameters
\* still present, with their accumulators unchanged: entries of vanished
\* parameters are gone, new parameters have none, and no parameter has the
\* accumulators of another.  It holds where state_dict() keys by identity
\* and fails where it keys by position: after a flush the parameter that
\* moved up to position 1 has the accumulators of the one removed from it.
C10_RebindKeepsRetainedState ==
    [][(IsCall /\ opt_G'.obj # opt_G.obj) =>
          /\ RebindKeepsRetained(opt_G, opt_G', G')
          /\ RebindKeepsRetained(opt_D, opt_D', D')]_vars

\* C11: a call of update_moving_average never changes the generator's
\* parameters; a call with decay 1 that returns leaves every shadow parameter
\* as it was, a call with decay 0 that returns makes every shadow parameter
\* equal to the generator's parameter of the same name, and a second such
\* call with no generator step in between changes nothing
C11_EmaDecayOneAndZero ==
    [][ema_call'.n # ema_call.n =>
          /\ weights'.G = weights.G
          /\ (ema_call'.raised = "" /\ ema_call'.decay = One)
                => weights'.G_EMA = weights.G_EMA
          /\ (ema_call'.raised = "" /\ ema_call'.decay = Zero)
                => \A name \in DOMAIN weights'.G_EMA :
                       weights'.G_EMA[name] = weights.G[name]
          /\ (ema_call'.raised = "" /\ ema_call'.decay \in {Zero, One}
                                    /\ ema_call'.repeat)
                => weights' = weights]_vars

\* A second call with decay 0 has returned, no generator step between the
\* two, on a shadow with every name and a generator with both values
C11_Witness ==
    /\ ema_call.n >= 2
    /\ ema_call.raised = ""
    /\ ema_call.decay = Zero
    /\ ema_call.repeat
    /\ DOMAIN weights.G_EMA = Names
    /\ \E name \in Names : weights.G[name] = One
    /\ \E name \in Names : weights.G[name] = Zero

\* C12: when the parameter names of the generator and of the shadow differ,
\* a call of update_moving_average raises
C12_NameMismatchRaises ==
    (ema_call.n > 0 /\ DOMAIN weights.G # DOMAIN weights.G_EMA)
        => ema_call.raised # ""

InStage == pc \in {"epoch", "aug", "iter", "batch", "network", "ema", "tick",
                   "epoch_end", "save"}

\* C13: in a run of train() the checkpoints written so far are those of the
\* stages whose loops have ended, one each, in order; the k-th is named by
\* and carries stage number k, so no two share a file; it is written when
\* every epoch of stage k has run, the controller calls of stage k come
\* before it and those of stage k + 1 after it; and a checkpoint once
\* written stays as it is
C13_OneCheckpointPerStage ==
    /\ [](/\ \A k \in DOMAIN saved : saved[k].file = k /\ saved[k].stage = k
          /\ \A j, k \in DOMAIN saved : j # k => saved[j].file # saved[k].file
          /\ (InStage \/ pc \in {"stage", "raised"}) => Len(saved) = stage - 1
          /\ pc = "done" => Len(saved) = stage - 1
          /\ pc = "save" => epoch = M
          /\ ncalls > 0 => call.stage \in {Len(saved), Len(saved) + 1}
          /\ pc \in {"network", "ema", "tick"} => call.stage = Len(saved) + 1)
    /\ [][/\ Len(saved') >= Len(saved)
          /\ \A k \in DOMAIN saved : saved'[k] = saved[k]
          /\ ncalls' # ncalls => call'.stage = Len(saved) + 1]_vars

\* The third stage trains after the checkpoints of stages 1 and 2
C13_Witness ==
    /\ Len(saved) = 2
    /\ pc = "network"
    /\ stage = 3
    /\ call.stage = 3
    /\ ticker > 0

\* The stages whose loops have ended, in the order they ended
StagesRun == [k \in DOMAIN saved |-> saved[k].stage]

\* C14: when train() has ended, the stages run are 1, 2, ..., total_stages,
\* each once and in this order, and no controller call got a stage above
\* total_stages
C14_RunsEveryStageOnce ==
    /\ pc \in {"done", "raised"} =>
          StagesRun = [k \in 1..(Log2Quarter(cfg.size) + 1) |-> k]
    /\ ncalls > 0 => /\ call.stage <= Log2Quarter(cfg.size) + 1
                     /\ call.raised # "AssertionError"

\* C15 as stated: with size 4 times the base resolution, a run of train()
\* that has returned ran 2 stages and its last checkpoint has stage 2
C15_FourTimesBaseIsTwoStages ==
    (cfg.size = 4 * BaseSize /\ pc = "done") =>
        /\ Len(saved) = 2
        /\ saved[Len(saved)].stage = 2

\* C15 amended: with size 4 times the base resolution 4, a run of train()
\* that has returned ran 3 stages and its last checkpoint has stage 3
C15_FourTimesBaseIsThreeStages ==
    (cfg.size = 4 * BaseSize /\ pc = "done") =>
        /\ StagesRun = <<1, 2, 3>>
        /\ saved[Len(saved)].stage = 3

\* A run with size 16 that trained on batches has returned
C15_Witness ==
    /\ cfg.size = 4 * BaseSize
    /\ pc = "done"
    /\ global_step > 0
    /\ Len(saved) = 3

\* C16: every worker that has started ran the seeding function at its
\* start-up, and no two workers started from the same numpy, random or torch
\* seed
C16_EveryWorkerSeedsItself ==
    \A w \in DOMAIN loader.workers :
        loader.workers[w].started =>
            /\ loader.workers[w].ran_init_fn
            /\ \A v \in DOMAIN loader.workers \ {w} :
                   loader.workers[v].started =>
                       /\ loader.workers[v].np_seed # loader.workers[w].np_seed
                       /\ loader.workers[v].random_seed # loader.workers[w].random_seed
                       /\ loader.workers[v].torch_seed # loader.workers[w].torch_seed

\* The operations of the batch that follows k generator steps
BatchLog(k) ==
    <<LogEntry("update_trainer", k), LogEntry("opt_D.step", k),
      LogEntry("opt_G.step", k + 1), LogEntry("update_moving_average", k + 1)>>

\* C17: when the counters of a batch advance, the batch has done, in this
\* order and once each, update_trainer, the discriminator step, the
\* generator step and the EMA update, the EMA update after the generator
\* step of this very batch; the tick counter moves only there (or back to 0
\* at the start of a stage), never before the EMA update.  The steps of the
\* main thread are those that change its position; the start-up of a worker
\* process between them changes nothing of the batch.
C17_BatchOrder ==
    [][/\ pc' = "tick" => log' = BatchLog(global_step')
       /\ ticker' # ticker =>
              \/ pc = "stage" /\ ticker' = 0
              \/ /\ pc = "tick"
                 /\ ticker' = ticker + 1
                 /\ log = BatchLog(global_step)
                 /\ global_step' = global_step + 1
       /\ pc' = pc => UNCHANGED <<log, ticker, global_step, netVars, ema_call>>
       /\ (pc = "batch" /\ pc' \notin {pc, "raised"}) =>
              pc' = "network" /\ Len(log') = 1
       /\ (pc = "network" /\ pc' # pc) => pc' = "ema" /\ Len(log') = 3
       /\ (pc = "ema" /\ pc' # pc) => pc' = "tick"]_vars

\* The second batch of a stage above 1 is about to advance the counters
C17_Witness ==
    /\ pc = "tick"
    /\ stage > 1
    /\ ticker = 1
    /\ log = BatchLog(global_step)
    /\ global_step > 1

\* C18 as stated, for every configuration: on each network the grow and flush
\* calls alternate starting with a grow, every stage above 1 has made one
\* grow and one flush when it ends, and a run that returns made
\* total_stages - 1 grows
C18_GrowFlushAlternateAlways ==
    \A net \in NetNames :
        /\ count[net].flush <= count[net].grow
        /\ count[net].grow <= count[net].flush + 1
        /\ count[net].grow <= Log2Quarter(cfg.size)
        /\ (pc = "save" /\ stage > 1) =>
               count[net].grow = stage - 1 /\ count[net].flush = stage - 1
        /\ pc = "done" =>
               count[net].grow = Log2Quarter(cfg.size)

\* C18 amended: the same when tickers >= 1
C18_GrowFlushAlternate ==
    tickers >= 1 =>
        \A net \in NetNames :
            /\ count[net].flush <= count[net].grow
            /\ count[net].grow <= count[net].flush + 1
            /\ count[net].grow <= Log2Quarter(cfg.size)
            /\ (pc = "save" /\ stage > 1) =>
                   count[net].grow = stage - 1 /\ count[net].flush = stage - 1
            /\ pc = "save" => count[net].grow = count[net].flush
            /\ pc = "done" =>
                   /\ count[net].grow = Log2Quarter(cfg.size)
                   /\ count[net].flush = Log2Quarter(cfg.size)

\* A run with three grows and three flushes on every network has returned
C18_Witness ==
    /\ pc = "done"
    /\ tickers >= 1
    /\ \A net \in NetNames : count[net].grow = 3 /\ count[net].flush = 3

Flushed(c) == c.raised = "" /\ c.ops = Three("flush_network")

\* C19: in every stage above 1 with tickers >= 1 the controller is called
\* with tick = tickers before the stage ends and flushes, and the checkpoint
\* of such a stage holds G, D and G_EMA in the STABLE state
C19_FlushBeforeStageEnds ==
    /\ [](\A k \in DOMAIN saved :
             (k > 1 /\ tickers >= 1) =>
                 /\ Mode(saved[k].G_state_dict) = "STABLE"
                 /\ Mode(saved[k].D_state_dict) = "STABLE"
                 /\ Mode(saved[k].G_EMA_state_dict) = "STABLE")
    /\ [](\A net \in NetNames :
             (pc = "save" /\ stage > 1 /\ tickers >= 1) =>
                 call.stage = stage /\ count[net].flush = stage - 1)
    /\ (stage > 1 /\ pc = "epoch" /\ epoch = 0 /\ tickers >= 1)
           ~> (InStage /\ call.stage = stage /\ call.tick = tickers
                       /\ Flushed(call))

\* The checkpoints of stages 2 and 3 are written, both STABLE, after a
\* fade-in of more than one step
C19_Witness ==
    /\ Len(saved) >= 3
    /\ tickers >= 2
    /\ Mode(saved[2].G_state_dict) = "STABLE"
    /\ Mode(saved[3].G_state_dict) = "STABLE"

\* C20: while tickers is 0, train() makes no controller call and is never in
\* the body of the batch loop, and no run of train() ends in the division by
\* zero of line 83
C20_NoCallWithZeroTickers ==
    /\ tickers = 0 => /\ ncalls = 0
                      /\ pc \notin {"batch", "network", "ema", "tick"}
                      /\ global_step = 0
    /\ error # "ZeroDivisionError"
    /\ call.raised # "ZeroDivisionError"

\* With tickers = 0 a stage above 1 has ended without a controller call
C20_Witness ==
    /\ tickers = 0
    /\ stage > 1
    /\ pc = "save"
    /\ ncalls = 0

============================================================================
